---- MODULE Spec2Model ----
(***************************************************************************)
(* Sound-Assessment: the Drive -> Sheets synchronisation scripts            *)
(* (Sheet_Update_runt_this.py, Sheet_update_new_remote.py) and the upload   *)
(* scripts (drive_upload_run_this.py, drive_upload_new_remote.py).          *)
(*                                                                          *)
(* Strings are sequences of one-character strings, so that normalisation,   *)
(* regular-expression matching and formatting are computed character by     *)
(* character, as the Python code computes them.                             *)
(***************************************************************************)
EXTENDS Integers, Sequences, FiniteSets, TLC

VARIABLES
    nameA,      \* SpecKey: a name handed to _keyize
    nameB,      \* SpecKey: a name obtained from nameA by case/separator/punctuation edits
    keyOut,     \* SpecKey: what both _keyize versions return for nameA and nameB
    nedits,     \* SpecKey: number of edits applied so far
    text,       \* SpecLaeq: the report text handed to extract_laeq
    laeq,       \* SpecLaeq: what extract_laeq returned
    xpc,        \* SpecLaeq: "call" before the call, "returned" after it
    variant,    \* which script runs: "local" (Sheet_Update_runt_this.py) or
                \* "remote" (Sheet_update_new_remote.py)
    order,      \* the order the server lists children in: "asc" or "desc" by id
    defects,    \* what this run's namespace and sheet lack of the complete ones
    ns,         \* the remote namespace: node id -> [name, parents, kind, trashed, text]
    sheet,      \* the spreadsheet: [fault, titles, values]
    targets,    \* TARGET_CLASSES of the script that runs
    pc,         \* where main() is: "start", "classes", "remotes", "indices", "done",
                \* or "exit" after sys.exit(1)
    class_map,  \* main's class_map: normalized class name -> sheet row
    todo,       \* the classes the class loop has still to go through
    cur,        \* the class being processed: class_name, c_id, row, rid
    remTodo,    \* new_remote: the REMOTE_MAP entries still to go through
    idxTodo,    \* the indices the index loop has still to go through
    updates,    \* main's updates list
    batchCalls, \* the bodies of the batchUpdate calls the sink received
    resolved,   \* runt_this: the segment lookups of the index processed last
    found,      \* the report file lookup of the index processed last
    picked,     \* the choose_class_folder_with_content call made last:
                \* parent_id, class_name and the id returned
    log,        \* what the run printed: one event per class, remote folder and index
    drive,      \* upload: the folders of the Drive: id -> [name, parent, trashed]
    _folder_cache, \* upload: _folder_cache: <<parent_id, name>> -> folder id
    jobs,       \* upload: the segment lists main() has still to resolve
    upc,        \* upload: "next" between two resolve_drive_path calls, "walk" inside
                \* one, "idle" when the upload script does not run
    up_parent,  \* upload: resolve_drive_path's parent
    segsLeft,   \* upload: the segments resolve_drive_path's loop has still to take
    returned,   \* upload: what the resolve_drive_path calls returned: [segments, id]
    lastCall,   \* upload: the find_or_create_folder call made last: its arguments,
                \* the server's answer to files().list, and what the call did
    wkind,      \* SpecWalk: "probe" (_folder_has_any_report) or "files" (list_files_recursive)
    wpc,        \* SpecWalk: "loop" inside the while loop, "returned" after it
    deque,      \* SpecWalk: dq, the deque of (folder, depth)
    calls,      \* SpecWalk: the (folder, depth) list_children was called on, in order
    inspected,  \* SpecWalk: the (file, level) the probe has looked at
    yielded,    \* SpecWalk: the files list_files_recursive has yielded, in order
    wresult     \* SpecWalk: "none", then "True" or "False" (probe), "StopIteration" (files)

keyVars == << nameA, nameB, keyOut, nedits >>

laeqVars == << text, laeq, xpc >>

envVars == << variant, targets, order, defects, ns, sheet >>

pipeVars == << envVars, pc, class_map, todo, cur, remTodo, idxTodo, updates, batchCalls,
              resolved, found, picked, log >>

upVars == << drive, _folder_cache, jobs, upc, up_parent, segsLeft, returned, lastCall >>

walkVars == << wkind, wpc, deque, calls, inspected, yielded, wresult >>

vars == << keyVars, laeqVars, pipeVars, upVars, walkVars >>

----------------------------------------------------------------------------
(* Characters and strings *)

UpperSeq == <<"A","B","C","D","E","F","G","H","I","J","K","L","M",
              "N","O","P","Q","R","S","T","U","V","W","X","Y","Z">>

LowerSeq == <<"a","b","c","d","e","f","g","h","i","j","k","l","m",
              "n","o","p","q","r","s","t","u","v","w","x","y","z">>

DigitSeq == <<"0","1","2","3","4","5","6","7","8","9">>

Range(s) == {s[i] : i \in DOMAIN s}

UpperSet == Range(UpperSeq)

LowerSet == Range(LowerSeq)

DigitSet == Range(DigitSeq)

IsUpper(c) == c \in UpperSet

IsLower(c) == c \in LowerSet

IsDigit(c) == c \in DigitSet

\* the character class [A-Za-z0-9]
IsAlnum(c) == IsUpper(c) \/ IsLower(c) \/ IsDigit(c)

IndexIn(seq, c) == CHOOSE i \in DOMAIN seq : seq[i] = c

UpperOf == [c \in LowerSet |-> UpperSeq[IndexIn(LowerSeq, c)]]

LowerOf == [c \in UpperSet |-> LowerSeq[IndexIn(UpperSeq, c)]]

\* str.upper() / str.lower() on one character (ASCII letters; others unchanged)
UpperChar(c) == IF IsLower(c) THEN UpperOf[c] ELSE c

LowerChar(c) == IF IsUpper(c) THEN LowerOf[c] ELSE c

StrUpper(s) == [i \in DOMAIN s |-> UpperChar(s[i])]

StrLower(s) == [i \in DOMAIN s |-> LowerChar(s[i])]

\* Python's None where a string is expected: a value that is no string of the model
NoneStr == <<"<None>">>

\* str.startswith / str.endswith
StartsWith(s, p) == Len(s) >= Len(p) /\ SubSeq(s, 1, Len(p)) = p

EndsWith(s, p) == Len(s) >= Len(p) /\ SubSeq(s, Len(s) - Len(p) + 1, Len(s)) = p

\* whether old occurs in s at position i
OccursAt(s, old, i) ==
    /\ i + Len(old) - 1 <= Len(s)
    /\ \A k \in DOMAIN old : s[i + k - 1] = old[k]

\* the scan of str.replace from position i on
RECURSIVE ReplaceFrom(_, _, _, _)
ReplaceFrom(s, old, new, i) ==
    IF i > Len(s) THEN <<>>
    ELSE IF OccursAt(s, old, i) THEN new \o ReplaceFrom(s, old, new, i + Len(old))
    ELSE <<s[i]>> \o ReplaceFrom(s, old, new, i + 1)

\* str.replace(old, new): non-overlapping occurrences, left to right (old non-empty)
StrReplace(s, old, new) == ReplaceFrom(s, old, new, 1)

\* re.sub(r'[^A-Za-z0-9]', '', s)
StripNonAlnum(s) == SelectSeq(s, IsAlnum)

----------------------------------------------------------------------------
(* NameNormalizer *)

\* The first argument of the first str.replace of Sheet_Update_runt_this.py:85.
\* The line reads  name.replace(''', "'").replace(''', "'")  with ASCII quotes, so
\* the three quotes open a triple-quoted literal that runs to the next three
\* quotes: the call is name.replace(<this 15-character string>, "'").
QuoteArg == <<",", " ", "\"", "'", "\"", ")", ".", "r", "e", "p", "l", "a", "c", "e", "(">>

\* _keyize of Sheet_update_new_remote.py
keyize_remote(name) ==
    IF name = NoneStr \/ name = <<>> THEN <<>>
    ELSE StrUpper(StripNonAlnum(StrReplace(name, <<"_">>, <<" ">>)))

\* _keyize of Sheet_Update_runt_this.py
_keyize(name) ==
    IF name = NoneStr \/ name = <<>> THEN <<>>
    ELSE LET s1 == StrReplace(name, QuoteArg, <<"'">>)
             s2 == StrReplace(s1, <<"_">>, <<" ">>)
         IN  StrUpper(StripNonAlnum(s2))

----------------------------------------------------------------------------
(* SpecKey: _keyize as a pure function.  Init draws a name; every action    *)
(* edits one character of nameB in a way that keeps its "semantic identity" *)
(* (letter case, underscore versus space, punctuation) and applies both     *)
(* _keyize versions to the two names.                                       *)

MaxPieces == 2

MaxEdits == 2

\* what names are built from: letters, a digit, separators, punctuation, and the
\* literal of line 85
NamePieces == { <<"a">>, <<"B">>, <<"1">>, <<"_">>, <<" ">>, QuoteArg }

RECURSIVE NamesOf(_)
NamesOf(n) ==
    IF n = 0 THEN { <<>> }
    ELSE LET shorter == NamesOf(n - 1)
         IN  shorter \cup { s \o p : s \in shorter, p \in NamePieces }

\* punctuation: any character that is not an ASCII letter or digit
PunctChars == { "-" }

ApplyKeyize(a, b) ==
    [ local  |-> << _keyize(a), _keyize(b) >>,
      remote |-> << keyize_remote(a), keyize_remote(b) >>,
      twice  |-> << _keyize(_keyize(b)), keyize_remote(keyize_remote(b)) >> ]

KeyInit ==
    /\ nameA \in NamesOf(MaxPieces) \cup { NoneStr }
    /\ nameB = nameA
    /\ keyOut = ApplyKeyize(nameA, nameA)
    /\ nedits = 0

KeyEdited(b) ==
    /\ nameB' = b
    /\ keyOut' = ApplyKeyize(nameA, b)
    /\ nedits' = nedits + 1
    /\ UNCHANGED << nameA, laeqVars, pipeVars, upVars, walkVars >>

CanEdit == nedits < MaxEdits /\ nameB # NoneStr

\* a letter changes case
EditCase ==
    /\ CanEdit
    /\ \E i \in DOMAIN nameB :
         /\ IsUpper(nameB[i]) \/ IsLower(nameB[i])
         /\ KeyEdited([nameB EXCEPT ![i] =
                IF IsUpper(nameB[i]) THEN LowerChar(nameB[i]) ELSE UpperChar(nameB[i])])

\* an underscore becomes a space, or a space an underscore
EditSeparator ==
    /\ CanEdit
    /\ \E i \in DOMAIN nameB :
         /\ nameB[i] \in {"_", " "}
         /\ KeyEdited([nameB EXCEPT ![i] = IF nameB[i] = "_" THEN " " ELSE "_"])

\* a punctuation character is inserted
EditInsertPunct ==
    /\ CanEdit
    /\ \E i \in 0..Len(nameB), c \in PunctChars :
         KeyEdited(SubSeq(nameB, 1, i) \o <<c>> \o SubSeq(nameB, i + 1, Len(nameB)))

\* a punctuation character (neither letter, digit, underscore nor space) is removed
EditDeletePunct ==
    /\ CanEdit
    /\ \E i \in DOMAIN nameB :
         /\ ~IsAlnum(nameB[i]) /\ nameB[i] \notin {"_", " "}
         /\ KeyEdited(SubSeq(nameB, 1, i - 1) \o SubSeq(nameB, i + 1, Len(nameB)))

KeyNext == EditCase \/ EditSeparator \/ EditInsertPunct \/ EditDeletePunct


----------------------------------------------------------------------------
(* MetricExtractor *)

\* the first position from i on whose character is in chars (inside = TRUE) or
\* is not (inside = FALSE), Len(s) + 1 when there is none
NextPos(s, i, chars, inside) ==
    LET hits == {k \in i..Len(s) : (s[k] \in chars) = inside}
    IN  IF hits = {} THEN Len(s) + 1 ELSE CHOOSE k \in hits : \A j \in hits : k <= j

LineBreaks == {"\n"}

\* the scan of str.splitlines: the lines of s from position start on
RECURSIVE LinesFrom(_, _)
LinesFrom(s, start) ==
    LET Cut(end) == <<SubSeq(s, start, end - 1)>> \o LinesFrom(s, end + 1)
    IN  IF start > Len(s) THEN <<>> ELSE Cut(NextPos(s, start, LineBreaks, TRUE))

\* str.splitlines(): the lines of a text, a final line break adding no empty line
SplitLines(s) == LinesFrom(s, 1)

SpaceChars == {" ", "\t"}

IsSpace(c) == c \in SpaceChars

\* the scan of str.split: the tokens of s from position i on
RECURSIVE TokensFrom(_, _)
TokensFrom(s, i) ==
    LET Token(b, e) == <<SubSeq(s, b, e - 1)>> \o TokensFrom(s, e)
        From(b) == IF b > Len(s) THEN <<>> ELSE Token(b, NextPos(s, b, SpaceChars, TRUE))
    IN  From(NextPos(s, i, SpaceChars, FALSE))

\* str.split(): the maximal runs of non-whitespace characters
SplitWs(s) == TokensFrom(s, 1)

\* a pattern is a sequence of atoms: "\\d" is a digit, any other atom is itself
AtomMatches(atom, c) == IF atom = "\\d" THEN IsDigit(c) ELSE atom = c

\* r'\d{4}-\d{2}-\d{2}'
DatePattern == <<"\\d", "\\d", "\\d", "\\d", "-", "\\d", "\\d", "-", "\\d", "\\d">>

\* r'\d{2}:\d{2}:\d{2}'
TimePattern == <<"\\d", "\\d", ":", "\\d", "\\d", ":", "\\d", "\\d">>

\* re.match(pattern, tok) is not None: the pattern matches at the start of tok
ReMatch(pattern, tok) ==
    /\ Len(tok) >= Len(pattern)
    /\ \A i \in DOMAIN pattern : AtomMatches(pattern[i], tok[i])

\* the condition of the if statement of extract_laeq
IsDataLine(toks) ==
    /\ Len(toks) >= 5
    /\ ReMatch(DatePattern, toks[1])
    /\ ReMatch(TimePattern, toks[2])
    /\ ReMatch(DatePattern, toks[3])
    /\ ReMatch(TimePattern, toks[4])

RECURSIVE ScanLines(_)
ScanLines(lines) ==
    IF lines = <<>> THEN NoneStr
    ELSE LET toks == SplitWs(Head(lines))
         IN  IF IsDataLine(toks) THEN toks[5] ELSE ScanLines(Tail(lines))

extract_laeq(t) == ScanLines(SplitLines(t))

----------------------------------------------------------------------------
(* SpecLaeq: extract_laeq as a pure function of a report text.              *)

MaxLines == 2

RECURSIVE JoinWith(_, _)
JoinWith(strs, sep) ==
    IF strs = <<>> THEN <<>>
    ELSE IF Len(strs) = 1 THEN strs[1]
    ELSE strs[1] \o sep \o JoinWith(Tail(strs), sep)

TokDate == <<"2","0","2","4","-","0","1","-","0","1">>

TokDateLong == TokDate \o <<"T">>

TokDateShort == <<"2","0","2","4","-","1","-","1">>

TokTime == <<"0","1",":","0","0",":","0","0">>

TokTimeLong == TokTime \o <<".","5">>

TokWord == <<"L","A","e","q">>

Tok553 == <<"5","5",".","3">>

Tok421 == <<"4","2",".","1">>

\* the lines report texts are made of: four leading tokens, then nothing, a value,
\* or a value and more
ReportLines ==
    { JoinWith(<<t0, t1, TokDate, t3>> \o rest, <<" ">>) :
        t0 \in {TokDate, TokDateLong, TokDateShort},
        t1 \in {TokTime, TokWord},
        t3 \in {TokTime, TokTimeLong},
        rest \in { <<>>, <<Tok553>>, <<Tok421, TokWord>> } }

RECURSIVE TextsOf(_)
TextsOf(n) ==
    IF n = 0 THEN { <<>> }
    ELSE LET shorter == TextsOf(n - 1)
         IN  shorter \cup { t \o l \o <<"\n">> : t \in shorter, l \in ReportLines }

LaeqInit ==
    /\ text \in TextsOf(MaxLines)
    /\ laeq = NoneStr
    /\ xpc = "call"

ExtractLaeq ==
    /\ xpc = "call"
    /\ laeq' = extract_laeq(text)
    /\ xpc' = "returned"
    /\ UNCHANGED << text, keyVars, pipeVars, upVars, walkVars >>

LaeqNext == ExtractLaeq

----------------------------------------------------------------------------
(* The remote namespace (Google Drive) as the scripts see it.               *)
(* ns maps a node id to [name, parents, kind, trashed, text]; ids are       *)
(* positive numbers, NoneId is Python's None where an id is expected.       *)

NoneId == 0

DRIVE_ROOT_FOLDER_ID == 100

FIRST_ROW == 4

SHEET_NAME == <<"M","a","i","n"," ","S","h","e","e","t">>

----------------------------------------------------------------------------
(* The namespaces and the sheet the runs are checked on.  Each script has a *)
(* complete namespace; a run's namespace is the complete one with up to     *)
(* MaxDefects defects: a node trashed, a report without a data line, a      *)
(* class without a sheet row, the tab missing, the read failing.            *)

MaxDefects == 1

Folder(name, parent) ==
    [ name |-> name, parents |-> {parent}, kind |-> "folder", trashed |-> FALSE, text |-> <<>> ]

File(name, parent, txt) ==
    [ name |-> name, parents |-> {parent}, kind |-> "file", trashed |-> FALSE, text |-> txt ]

DataLine(value) == JoinWith(<<TokDate, TokTime, TokDate, TokTime, value, TokWord>>, <<" ">>)

\* a report: a heading, the summary row, a later row
ReportText(value) ==
    <<"S", "t", "a", "r", "t", " ", "S", "t", "o", "p", " ", "L", "A", "e", "q", "\n">> \o DataLine(value) \o <<"\n">> \o DataLine(<<"9", "9", ".", "9">>) \o <<"\n">>

NoDataText == <<"S", "t", "a", "r", "t", " ", "S", "t", "o", "p", " ", "L", "A", "e", "q", "\n", "n", "o", " ", "m", "e", "a", "s", "u", "r", "e", "m", "e", "n", "t", "\n">>

\* TARGET_CLASSES of Sheet_Update_runt_this.py
TARGET_CLASSES_LOCAL == << <<"W", "P", "H", " ", "4", "0", "0">>, <<"W", "P", "H", " ", "6", "0", "3">> >>

\* TARGET_CLASSES of Sheet_update_new_remote.py: a list of classes (here two, so
\* that the loop has a later class to go on with), or [] for all
TARGET_CLASSES_REMOTE == << <<"S", "O", "S", " ", "B", "3", "7">>, <<"S", "O", "S", " ", "B", "4", "0">> >>

\* INDEX_TO_DRIVE_PATH and INDEX_TO_COL, the entries of indices 001, 003 and 018
INDEX_TABLE ==
    << [ idx |-> <<"0", "0", "1">>, path |-> << <<"L", "o", "c", "a", "l">>, <<"W", "i", "t", "h", "o", "u", "t", " ", "A", "u", "d", "i", "o">>, <<"F", "r", "o", "n", "t", "_", "1">> >>, col |-> <<"D">> ],
       [ idx |-> <<"0", "0", "3">>, path |-> << <<"L", "o", "c", "a", "l">>, <<"W", "i", "t", "h", "o", "u", "t", " ", "A", "u", "d", "i", "o">>, <<"B", "a", "c", "k", "_", "1">> >>,  col |-> <<"F">> ],
       [ idx |-> <<"0", "1", "8">>, path |-> << <<"R", "e", "m", "o", "t", "e", "_", "2">> >>,                              col |-> <<"X">> ] >>

\* REMOTE_MAP
REMOTE_MAP ==
    << [ remote_name |-> <<"R", "e", "m", "o", "t", "e", "3">>,
         slm_map |-> << [ idx |-> <<"0", "0", "0">>, col |-> <<"Z">> ],
                        [ idx |-> <<"0", "0", "1">>, col |-> <<"A", "A">> ],
                        [ idx |-> <<"0", "0", "2">>, col |-> <<"A", "B">> ] >> ],
       [ remote_name |-> <<"R", "e", "m", "o", "t", "e", "4">>,
         slm_map |-> << [ idx |-> <<"0", "0", "3">>, col |-> <<"A", "C">> ],
                        [ idx |-> <<"0", "0", "4">>, col |-> <<"A", "D">> ],
                        [ idx |-> <<"0", "0", "5">>, col |-> <<"A", "E">> ] >> ] >>

\* the complete namespace of Sheet_Update_runt_this.py: class WPH 400 exists twice,
\* folder 2 with the report of Remote_2 only and folder 3 with those of Local only
\* (class WPH 603 keeps an older report of Remote_2 in a subfolder)
LocalTree ==
    (1  :> Folder(<<"W", "P", "H">>, DRIVE_ROOT_FOLDER_ID)) @@
    (2  :> Folder(<<"W", "P", "H", " ", "4", "0", "0">>, 1)) @@
    (3  :> Folder(<<"w", "p", "h", "_", "4", "0", "0">>, 1)) @@
    (4  :> Folder(<<"W", "P", "H", " ", "6", "0", "3">>, 1)) @@
    (5  :> Folder(<<"L", "o", "c", "a", "l">>, 3)) @@
    (6  :> Folder(<<"W", "i", "t", "h", "o", "u", "t", " ", "A", "u", "d", "i", "o">>, 5)) @@
    (7  :> Folder(<<"F", "r", "o", "n", "t", " ", "1">>, 6)) @@
    (8  :> Folder(<<"B", "a", "c", "k", "_", "1">>, 6)) @@
    (9  :> File(<<"A", "_", "0", "0", "1", "_", "1", "2", "3", "_", "R", "e", "p", "o", "r", "t", ".", "t", "x", "t">>, 7, ReportText(<<"5", "5", ".", "3">>))) @@
    (10 :> File(<<"A", "_", "0", "0", "3", "_", "1", "2", "3", "_", "R", "e", "p", "o", "r", "t", ".", "t", "x", "t">>, 8, ReportText(<<"4", "2", ".", "1">>))) @@
    (11 :> Folder(<<"R", "e", "m", "o", "t", "e", "_", "2">>, 2)) @@
    (12 :> File(<<"s", "u", "m", "m", "a", "r", "y", "_", "1", "2", "3", "_", "r", "e", "p", "o", "r", "t", ".", "T", "X", "T">>, 11, ReportText(<<"6", "0", ".", "0">>))) @@
    (13 :> Folder(<<"r", "e", "m", "o", "t", "e", " ", "2">>, 4)) @@
    (14 :> File(<<"B", "_", "0", "1", "8", "_", "1", "2", "3", "_", "R", "e", "p", "o", "r", "t", ".", "t", "x", "t">>, 13, ReportText(<<"3", "8", ".", "9">>))) @@
    (15 :> File(<<"n", "o", "t", "e", "s", ".", "t", "x", "t">>, 2, NoDataText)) @@
    (16 :> File(<<"r", "e", "a", "d", "m", "e", ".", "t", "x", "t">>, 13, ReportText(<<"1", "1", ".", "1">>))) @@
    (17 :> Folder(<<"o", "l", "d">>, 13)) @@
    (18 :> File(<<"C", "_", "0", "1", "8", "_", "1", "2", "3", "_", "R", "e", "p", "o", "r", "t", ".", "t", "x", "t">>, 17, ReportText(<<"3", "3", ".", "3">>)))

\* the complete namespace of Sheet_update_new_remote.py: Remote3 of class SOS B37
\* holds reports at depths 0 to 3, two of them for index 000 within depth 2
RemoteTree ==
    (21 :> Folder(<<"S", "O", "S">>, DRIVE_ROOT_FOLDER_ID)) @@
    (22 :> Folder(<<"S", "O", "S", " ", "B", "3", "7">>, 21)) @@
    (23 :> Folder(<<"s", "o", "s", "_", "b", "3", "7">>, 21)) @@
    (24 :> Folder(<<"R", "e", "m", "o", "t", "e", "3">>, 22)) @@
    (25 :> Folder(<<"R", "e", "m", "o", "t", "e", "4">>, 22)) @@
    (26 :> File(<<"X", "_", "0", "0", "0", "_", "1", "2", "3", "_", "R", "e", "p", "o", "r", "t", ".", "t", "x", "t">>, 24, ReportText(<<"5", "0", ".", "0">>))) @@
    (27 :> Folder(<<"r", "u", "n", "2">>, 24)) @@
    (28 :> File(<<"Y", "_", "0", "0", "0", "_", "1", "2", "3", "_", "R", "e", "p", "o", "r", "t", ".", "t", "x", "t">>, 27, ReportText(<<"5", "1", ".", "0">>))) @@
    (29 :> File(<<"Y", "_", "0", "0", "1", "_", "1", "2", "3", "_", "r", "e", "p", "o", "r", "t", ".", "T", "X", "T">>, 27, ReportText(<<"5", "2", ".", "0">>))) @@
    (30 :> Folder(<<"a">>, 27)) @@
    (31 :> File(<<"Z", "_", "0", "0", "2", "_", "1", "2", "3", "_", "R", "e", "p", "o", "r", "t", ".", "t", "x", "t">>, 30, ReportText(<<"5", "3", ".", "0">>))) @@
    (32 :> Folder(<<"d", "e", "e", "p">>, 30)) @@
    (33 :> File(<<"Z", "Z", "_", "0", "0", "0", "_", "1", "2", "3", "_", "R", "e", "p", "o", "r", "t", ".", "t", "x", "t">>, 32, ReportText(<<"5", "4", ".", "0">>))) @@
    (34 :> File(<<"M", "_", "0", "0", "3", "_", "1", "2", "3", "_", "R", "e", "p", "o", "r", "t", ".", "t", "x", "t">>, 25, ReportText(<<"4", "2", ".", "1">>))) @@
    (35 :> File(<<"N", "_", "0", "0", "5", "_", "1", "2", "3", "_", "R", "e", "p", "o", "r", "t", ".", "t", "x", "t">>, 25, ReportText(<<"5", "5", ".", "3">>))) @@
    (36 :> Folder(<<"S", "O", "S", " ", "B", "4", "0">>, 21)) @@
    (37 :> Folder(<<"r", "e", "m", "o", "t", "e", "4">>, 36)) @@
    (38 :> File(<<"Q", "_", "0", "0", "4", "_", "1", "2", "3", "_", "R", "e", "p", "o", "r", "t", ".", "t", "x", "t">>, 37, ReportText(<<"3", "8", ".", "9">>))) @@
    (39 :> File(<<"R", "e", "m", "o", "t", "e", "3">>, 36, NoDataText))

CompleteTree(v) == IF v = "local" THEN LocalTree ELSE RemoteTree

\* column A from row 4 on: a heading, blank rows, and the classes at rows 10 to 13
CompleteValues ==
    << << <<"C", "l", "a", "s", "s", "r", "o", "o", "m">> >>, <<>>, << <<" ", " ">> >>, <<>>, <<>>, <<>>,
       << <<"W", "P", "H", " ", "4", "0", "0">> >>, << <<" ", "w", "p", "h", " ", "6", "0", "3", " ">> >>, << <<"S", "O", "S", " ", "B", "3", "7">> >>, << <<"S", "O", "S", "_", "B", "4", "0">>, <<"x">> >> >>

ReportFiles(v) == {n \in DOMAIN CompleteTree(v) :
                     CompleteTree(v)[n].kind = "file" /\ CompleteTree(v)[n].text # NoDataText}

ClassRows(v) == IF v = "local" THEN {10, 11} ELSE {12, 13}

AllDefects(v) ==
    {<<"missing", n>> : n \in DOMAIN CompleteTree(v)}
      \cup {<<"nodata", f>> : f \in ReportFiles(v)}
      \cup {<<"norow", r>> : r \in ClassRows(v)}
      \cup {<<"notab", 0>>, <<"readerror", 0>>}

RECURSIVE SubsetsUpTo(_, _)
SubsetsUpTo(S, k) ==
    IF k = 0 THEN { {} }
    ELSE LET smaller == SubsetsUpTo(S, k - 1)
         IN  smaller \cup { D \cup {x} : D \in smaller, x \in S }

MakeNs(v, D) ==
    [ n \in DOMAIN CompleteTree(v) |->
        [ CompleteTree(v)[n] EXCEPT
            !.trashed = <<"missing", n>> \in D,
            !.text    = IF <<"nodata", n>> \in D THEN NoDataText ELSE @ ] ]

MakeSheet(D) ==
    [ fault  |-> IF <<"readerror", 0>> \in D THEN "HttpError" ELSE "none",
      titles |-> IF <<"notab", 0>> \in D THEN { <<"S", "h", "e", "e", "t", "1">> } ELSE { <<"S", "h", "e", "e", "t", "1">>, SHEET_NAME },
      values |-> [ i \in DOMAIN CompleteValues |->
                     IF <<"norow", i + FIRST_ROW - 1>> \in D THEN <<>> ELSE CompleteValues[i] ] ]

----------------------------------------------------------------------------
(* The Drive and Sheets calls of the scripts.                               *)

\* files().list(pageSize=...): how many entries the server puts on one page
PageSize == 2

IsFolder(f) == ns[f].kind = "folder"

Min(a, b) == IF a <= b THEN a ELSE b

RECURSIVE Ascending(_)
Ascending(S) ==
    IF S = {} THEN <<>>
    ELSE LET lo == CHOOSE x \in S : \A y \in S : x <= y
         IN  <<lo>> \o Ascending(S \ {lo})

Reverse(s) == [i \in DOMAIN s |-> s[Len(s) + 1 - i]]

\* the query  '<parent>' in parents and trashed=false , in the server's order
Listing(parent) ==
    LET Ordered(asc) == IF order = "asc" THEN asc ELSE Reverse(asc)
    IN  Ordered(Ascending({n \in DOMAIN ns : parent \in ns[n].parents /\ ~ns[n].trashed}))

\* one files().list(...).execute(): a page and the cursor of the next one
FilesList(parent, pageToken) ==
    LET Page(all, start, stop) ==
            [ files         |-> SubSeq(all, start, stop),
              nextPageToken |-> IF stop < Len(all) THEN stop + 1 ELSE NoneId ]
        From(all, start) == Page(all, start, Min(start + PageSize - 1, Len(all)))
    IN  From(Listing(parent), IF pageToken = NoneId THEN 1 ELSE pageToken)

\* the while loop of list_children
RECURSIVE ListPages(_, _)
ListPages(parent, pageToken) ==
    LET Extend(resp) == resp.files \o (IF resp.nextPageToken = NoneId THEN <<>>
                                       ELSE ListPages(parent, resp.nextPageToken))
    IN  Extend(FilesList(parent, pageToken))

list_children(parent_id) == ListPages(parent_id, NoneId)

\* _keyize of the script that runs
Key(name) == IF variant = "local" THEN _keyize(name) ELSE keyize_remote(name)

\* the children a lookup by name keeps
NamedFolders(parent_id, name) ==
    LET IsMatch(f) == IsFolder(f) /\ Key(ns[f].name) = Key(name)
    IN  SelectSeq(list_children(parent_id), IsMatch)

\* the first entry of a list of ids, NoneId for the empty list
FirstOrNone(ids) == IF ids = <<>> THEN NoneId ELSE ids[1]

\* descend_to_folder, but a child's name is compared as it is written
descend_exact_name(parent_id, name) ==
    LET IsMatch(f) == IsFolder(f) /\ ns[f].name = name
    IN  FirstOrNone(SelectSeq(list_children(parent_id), IsMatch))

descend_to_folder(parent_id, name) == FirstOrNone(NamedFolders(parent_id, name))

_list_named_child_folders(parent_id, name) == NamedFolders(parent_id, name)

ReportSuffix == <<"_","1","2","3","_","R","e","p","o","r","t",".","t","x","t">>

\* INDEX_RE.search(name): the three digits of  _(\d{3})_123_Report\.txt$  matched
\* ignoring case, NoneStr when the name does not end that way
index_re_search(name) ==
    LET n == Len(name)
    IN  IF /\ n >= 19
           /\ StrLower(SubSeq(name, n - 14, n)) = StrLower(ReportSuffix)
           /\ name[n - 18] = "_"
           /\ \A i \in (n - 17)..(n - 15) : IsDigit(name[i])
        THEN SubSeq(name, n - 17, n - 15)
        ELSE NoneStr

_is_report_file(name) ==
    IF name = NoneStr \/ name = <<>> THEN FALSE
    ELSE \/ EndsWith(StrLower(name), StrLower(ReportSuffix))
         \/ index_re_search(name) # NoneStr

\* what the probe of the running script takes for a report file
ProbeHit(ch) ==
    /\ ~IsFolder(ch)
    /\ IF variant = "local" THEN _is_report_file(ns[ch].name)
       ELSE index_re_search(ns[ch].name) # NoneStr

max_depth_probe == 6

Enqueue(children, d) ==
    LET sub == SelectSeq(children, IsFolder)
    IN  [i \in DOMAIN sub |-> << sub[i], d + 1 >>]

\* the while loop of _folder_has_any_report: dq is the deque of (folder, depth),
\* listed the folders list_children was called on so far
RECURSIVE ProbeLoop(_, _)
ProbeLoop(dq, listed) ==
    IF dq = <<>> THEN [ found |-> FALSE, listed |-> listed ]
    ELSE LET Visit(children) ==
                 IF \E i \in DOMAIN children : ProbeHit(children[i])
                 THEN [ found |-> TRUE, listed |-> Append(listed, dq[1]) ]
                 ELSE ProbeLoop(Tail(dq) \o Enqueue(children, dq[1][2]),
                                Append(listed, dq[1]))
         IN  IF dq[1][2] > max_depth_probe THEN ProbeLoop(Tail(dq), listed)
             ELSE Visit(list_children(dq[1][1]))

_folder_has_any_report(folder_id) == ProbeLoop(<< <<folder_id, 0>> >>, <<>>).found

\* choose_class_folder_with_content, but the probe's answer is ignored
ChooseFirstCandidate(parent_id, class_name) ==
    FirstOrNone(_list_named_child_folders(parent_id, class_name))

\* withReport are the candidates the for loop would return on, in order
choose_class_folder_with_content(parent_id, class_name) ==
    LET Pick(candidates, withReport) ==
            IF candidates = <<>> THEN NoneId
            ELSE IF withReport # <<>> THEN withReport[1]
            ELSE candidates[1]
        Probe(candidates) == Pick(candidates, SelectSeq(candidates, _folder_has_any_report))
    IN  Probe(_list_named_child_folders(parent_id, class_name))

\* find_report_file of Sheet_Update_runt_this.py: the id of the first report file
\* directly in the folder
find_report_file(folder_id) ==
    LET IsReport(f) == ~IsFolder(f) /\ _is_report_file(ns[f].name)
    IN  FirstOrNone(SelectSeq(list_children(folder_id), IsReport))

\* int(idx)
RECURSIVE ParseInt(_)
ParseInt(s) ==
    IF s = <<>> THEN 0
    ELSE 10 * ParseInt(SubSeq(s, 1, Len(s) - 1)) + (IndexIn(DigitSeq, s[Len(s)]) - 1)

\* str(n) for n >= 0
RECURSIVE Decimal(_)
Decimal(n) ==
    IF n < 10 THEN << DigitSeq[n + 1] >>
    ELSE Decimal(n \div 10) \o << DigitSeq[(n % 10) + 1] >>

\* f"{n:03d}"
Format03(n) ==
    LET d == Decimal(n)
    IN  IF Len(d) >= 3 THEN d
        ELSE IF Len(d) = 2 THEN <<"0">> \o d ELSE <<"0", "0">> \o d

is_target_report_for_index(name, idx) == index_re_search(name) = idx

max_depth_files == 2

\* list_files_recursive, but subfolders are followed at any depth
RECURSIVE FilesLoopUnbounded(_)
FilesLoopUnbounded(dq) ==
    IF dq = <<>> THEN <<>>
    ELSE LET IsFile(f) == ~IsFolder(f)
             Visit(children) ==
                 SelectSeq(children, IsFile)
                   \o FilesLoopUnbounded(Tail(dq) \o Enqueue(children, dq[1][2]))
         IN  Visit(list_children(dq[1][1]))

\* the while loop of list_files_recursive: the files it yields, in order
RECURSIVE FilesLoop(_)
FilesLoop(dq) ==
    IF dq = <<>> THEN <<>>
    ELSE LET IsFile(f) == ~IsFolder(f)
             Visit(children) ==
                 SelectSeq(children, IsFile)
                   \o FilesLoop(Tail(dq) \o (IF dq[1][2] < max_depth_files
                                             THEN Enqueue(children, dq[1][2]) ELSE <<>>))
         IN  Visit(list_children(dq[1][1]))

list_files_recursive(parent_id) == FilesLoop(<< <<parent_id, 0>> >>)

\* the characters of the model in code point order
AsciiSeq == <<"\t", "\n", " ", "!", "\"", "'", "(", ")", ",", "-", ".">> \o DigitSeq
              \o <<":">> \o UpperSeq \o <<"_">> \o LowerSeq

OrdOf == [c \in Range(AsciiSeq) |-> IndexIn(AsciiSeq, c)]

Ord(c) == OrdOf[c]

\* a <= b for Python strings
RECURSIVE StrLE(_, _)
StrLE(a, b) ==
    IF a = <<>> THEN TRUE
    ELSE IF b = <<>> THEN FALSE
    ELSE IF a[1] = b[1] THEN StrLE(Tail(a), Tail(b))
    ELSE Ord(a[1]) < Ord(b[1])

\* matches.sort(key=name); matches[-1]: the sort is stable, so of the files with
\* the greatest name the last one yielded is taken
SortedLast(matches) ==
    LET top == {i \in DOMAIN matches :
                  \A j \in DOMAIN matches : StrLE(ns[matches[j]].name, ns[matches[i]].name)}
    IN  matches[CHOOSE i \in top : \A j \in top : j <= i]

find_report_file_by_index(folder_id, idx) ==
    LET idx3 == Format03(ParseInt(idx))
        IsTarget(f) == is_target_report_for_index(ns[f].name, idx3)
        Pick(matches) == IF matches = <<>> THEN NoneId ELSE SortedLast(matches)
    IN  Pick(SelectSeq(list_files_recursive(folder_id), IsTarget))

download_file_text(file_id) == ns[file_id].text

----------------------------------------------------------------------------
(* The tabular sink (Google Sheets).  sheet is [fault, titles, values]:     *)
(* values is the answer to the read of column A, rows 4 and on, one list of *)
(* cells per row.                                                           *)

RECURSIVE StripLeft(_)
StripLeft(s) == IF s # <<>> /\ IsSpace(s[1]) THEN StripLeft(Tail(s)) ELSE s

\* str.strip()
StrStrip(s) == Reverse(StripLeft(Reverse(StripLeft(s))))

\* the rows map_sheet_rows enters in the table: row and row[0].strip()
KeyedRows(values) == {i \in DOMAIN values : values[i] # <<>> /\ StrStrip(values[i][1]) # <<>>}

RowKey(values, i) == Key(StrStrip(values[i][1]))

\* the for loop of map_sheet_rows: a later row with the same key replaces an earlier
RowTable(values) ==
    LET keys == {RowKey(values, i) : i \in KeyedRows(values)}
    IN  [k \in keys |->
           LET rows == {i \in KeyedRows(values) : RowKey(values, i) = k}
           IN  (CHOOSE i \in rows : \A j \in rows : j <= i) + FIRST_ROW - 1]

\* class_map.get(key)
RowOf(m, key) == IF key \in DOMAIN m THEN m[key] ELSE NoneId

\* an address with the row before the column
AddressRowFirst(col, row) == SHEET_NAME \o <<"!">> \o Decimal(row) \o col

\* f"{SHEET_NAME}!{col}{row}"
Address(col, row) == SHEET_NAME \o <<"!">> \o col \o Decimal(row)

----------------------------------------------------------------------------
(* The sheet-update run: main() of both scripts, one action per loop step.  *)

\* spreadsheets().get(): the titles of the tabs, or HttpError
SpreadsheetsGet == [ error |-> sheet.fault, titles |-> sheet.titles ]

\* spreadsheets().values().get(range='<tab>!A4:A240'): the server answers
\* HttpError on a fault and for a range it cannot parse (a tab that does not exist)
ValuesGet ==
    IF sheet.fault # "none" \/ SHEET_NAME \notin sheet.titles
    THEN [ error |-> "HttpError", values |-> <<>> ]
    ELSE [ error |-> "none", values |-> sheet.values ]

\* a table is built from whatever the read returns, without tab check or except
map_sheet_rows_unguarded == [ exit |-> FALSE, m |-> RowTable(sheet.values) ]

\* map_sheet_rows: the tab check (runt_this only), the read, and the table; exit
\* is sys.exit(1), the only exit of the scripts besides the return of main()
map_sheet_rows ==
    LET Exit == [ exit |-> TRUE, m |-> <<>> ]
        Read(resp) == IF resp.error # "none" THEN Exit
                      ELSE [ exit |-> FALSE, m |-> RowTable(resp.values) ]
        Checked(meta) == IF meta.error # "none" THEN Exit
                         ELSE IF SHEET_NAME \notin meta.titles THEN Exit
                         ELSE Read(ValuesGet)
    IN  IF variant = "local" THEN Checked(SpreadsheetsGet) ELSE Read(ValuesGet)

\* the classes main() goes through: TARGET_CLASSES, or (new_remote, empty list)
\* every folder of every building folder; b_id is known only in the second case
RECURSIVE Flatten(_)
Flatten(ss) == IF ss = <<>> THEN <<>> ELSE Head(ss) \o Flatten(Tail(ss))

Worklist ==
    IF targets # <<>>
    THEN [ i \in DOMAIN targets |-> [ class_name |-> targets[i], b_id |-> NoneId ] ]
    ELSE LET buildings == SelectSeq(list_children(DRIVE_ROOT_FOLDER_ID), IsFolder)
             Rooms(b)  == LET rooms == SelectSeq(list_children(b), IsFolder)
                          IN  [ j \in DOMAIN rooms |->
                                  [ class_name |-> ns[rooms[j]].name, b_id |-> b ] ]
         IN  Flatten([ i \in DOMAIN buildings |-> Rooms(buildings[i]) ])

\* a loop that stops at the first miss (break where the code says continue)
BreakLoop(rest) == <<>>

\* continue: the loop goes on with the rest of its items
ContinueWith(rest) == rest

\* the batch write is made whether or not there are updates
ShouldWriteAlways(u) == TRUE

\* if updates:
ShouldWrite(u) == u # <<>>

\* an update is recorded whatever extract_laeq returned
LaeqMissingNever(v) == FALSE

\* laeq is None (runt_this) / not laeq (new_remote)
LaeqMissing(v) == IF variant = "local" THEN v = NoneStr ELSE v = NoneStr \/ v = <<>>

Event(ev, class_name, item, outcome) ==
    [ ev |-> ev, class_name |-> class_name, item |-> item, outcome |-> outcome ]

Update(col, row, v) == [ range |-> Address(col, row), values |-> << <<v>> >> ]

\* alt = seg.replace('_', ' ') if '_' in seg else seg.replace(' ', '_')
AltSpelling(seg) ==
    IF "_" \in Range(seg) THEN StrReplace(seg, <<"_">>, <<" ">>)
    ELSE StrReplace(seg, <<" ">>, <<"_">>)

\* the body of  for seg in INDEX_TO_DRIVE_PATH[idx]:  attempts is 1 when the
\* primary descend found a folder, 2 when the alternate spelling was tried
ResolveSegment(fid, seg) ==
    LET Attempt(first) ==
            [ parent   |-> fid,
              seg      |-> seg,
              attempts |-> IF first = NoneId THEN 2 ELSE 1,
              next_id  |-> IF first # NoneId THEN first
                           ELSE descend_to_folder(fid, AltSpelling(seg)) ]
    IN  Attempt(descend_to_folder(fid, seg))

RECURSIVE ResolvePath(_, _, _)
ResolvePath(fid, segs, trail) ==
    IF segs = <<>> THEN [ fid |-> fid, trail |-> trail ]
    ELSE LET Step(r) ==
                 IF r.next_id = NoneId
                 THEN [ fid |-> NoneId, trail |-> Append(trail, r) ]
                 ELSE ResolvePath(r.next_id, Tail(segs), Append(trail, r))
         IN  Step(ResolveSegment(fid, Head(segs)))

PipeInit ==
    /\ variant \in {"local", "remote"}
    /\ targets \in (IF variant = "local"
                    THEN {TARGET_CLASSES_LOCAL, SubSeq(TARGET_CLASSES_LOCAL, 1, 1)}
                    ELSE {TARGET_CLASSES_REMOTE, <<>>})
    /\ order \in {"asc", "desc"}
    /\ defects \in SubsetsUpTo(AllDefects(variant), MaxDefects)
    /\ ns = MakeNs(variant, defects)
    /\ sheet = MakeSheet(defects)
    /\ pc = "start"
    /\ class_map = <<>>
    /\ todo = <<>>
    /\ cur = [ class_name |-> NoneStr, c_id |-> NoneId, row |-> NoneId, rid |-> NoneId ]
    /\ remTodo = <<>>
    /\ idxTodo = <<>>
    /\ updates = <<>>
    /\ batchCalls = <<>>
    /\ resolved = <<>>
    /\ found = [ class_name |-> NoneStr, folder |-> NoneId, idx |-> NoneStr, file_id |-> NoneId ]
    /\ picked = [ parent_id |-> NoneId, class_name |-> NoneStr, c_id |-> NoneId ]
    /\ log = <<>>

\* class_map = map_sheet_rows(sheets_svc); updates = []
MapSheetRows ==
    /\ pc = "start"
    /\ \E read \in {map_sheet_rows} :
         IF read.exit
         THEN /\ pc' = "exit"
              /\ UNCHANGED << class_map, todo >>
         ELSE /\ pc' = "classes"
              /\ class_map' = read.m
              /\ todo' = Worklist
    /\ UNCHANGED << envVars, cur, remTodo, idxTodo, updates, batchCalls, resolved, found, log,
                 picked, keyVars, laeqVars, upVars, walkVars >>

\* one pass of  for class_name in TARGET_CLASSES  up to the index loop (runt_this)
ClassLocal ==
    /\ pc = "classes" /\ variant = "local" /\ todo # <<>>
    /\ \E class_name \in {Head(todo).class_name} :
       \E building \in {SplitWs(class_name)[1]} :
       \E b_id \in {descend_to_folder(DRIVE_ROOT_FOLDER_ID, building)} :
       \E c_id \in {IF b_id = NoneId THEN NoneId
                    ELSE choose_class_folder_with_content(b_id, class_name)} :
       \E row \in {RowOf(class_map, Key(class_name))} :
       LET outcome == IF b_id = NoneId THEN "skip-building"
                      ELSE IF c_id = NoneId THEN "skip-folder"
                      ELSE IF row = NoneId THEN "skip-row" ELSE "ok"
       IN  /\ log' = Append(log, Event("class", class_name, building, outcome))
           /\ picked' = IF b_id = NoneId THEN picked
                        ELSE [ parent_id |-> b_id, class_name |-> class_name, c_id |-> c_id ]
           /\ IF outcome = "ok"
              THEN /\ todo' = Tail(todo)
                   /\ cur' = [ class_name |-> class_name, c_id |-> c_id,
                               row |-> row, rid |-> NoneId ]
                   /\ idxTodo' = INDEX_TABLE
                   /\ pc' = "indices"
              ELSE /\ todo' = ContinueWith(Tail(todo))
                   /\ UNCHANGED << cur, idxTodo, pc >>
    /\ UNCHANGED << envVars, class_map, remTodo, updates, batchCalls, resolved, found,
                 keyVars, laeqVars, upVars, walkVars >>

\* one pass of  for idx, col in INDEX_TO_COL.items()  (runt_this)
IndexLocal ==
    /\ pc = "indices" /\ variant = "local" /\ idxTodo # <<>>
    /\ \E e \in {Head(idxTodo)} :
       \E res \in {ResolvePath(cur.c_id, e.path, <<>>)} :
       \E file_id \in {IF res.fid = NoneId THEN NoneId ELSE find_report_file(res.fid)} :
       \E value \in {IF file_id = NoneId THEN NoneStr
                     ELSE extract_laeq(download_file_text(file_id))} :
       \E outcome \in {IF res.fid = NoneId THEN "skip-segment"
                       ELSE IF file_id = NoneId THEN "skip-report"
                       ELSE IF LaeqMissing(value) THEN "skip-laeq" ELSE "ok"} :
       \E rest \in {IF outcome = "ok" THEN Tail(idxTodo) ELSE ContinueWith(Tail(idxTodo))} :
           /\ resolved' = res.trail
           /\ found' = [ class_name |-> cur.class_name, folder |-> res.fid,
                         idx |-> e.idx, file_id |-> file_id ]
           /\ log' = Append(log, Event("index", cur.class_name, e.idx, outcome))
           /\ updates' = IF outcome = "ok"
                         THEN Append(updates, Update(e.col, cur.row, value)) ELSE updates
           /\ idxTodo' = rest
           /\ pc' = IF rest = <<>> THEN "classes" ELSE "indices"
    /\ UNCHANGED << envVars, class_map, todo, cur, remTodo, batchCalls,
                 picked, keyVars, laeqVars, upVars, walkVars >>

\* one pass of the class loop of new_remote (either branch) up to the loop over
\* REMOTE_MAP in process_one_classroom
ClassRemote ==
    /\ pc = "classes" /\ variant = "remote" /\ todo # <<>>
    /\ \E item \in {Head(todo)} :
       \E class_name \in {item.class_name} :
       \E row \in {RowOf(class_map, Key(class_name))} :
       \E building \in {IF item.b_id # NoneId THEN ns[item.b_id].name
                        ELSE SplitWs(class_name)[1]} :
       \E b_id \in {IF item.b_id # NoneId THEN item.b_id
                    ELSE IF row = NoneId THEN NoneId
                    ELSE descend_to_folder(DRIVE_ROOT_FOLDER_ID, building)} :
       \E c_id \in {IF row = NoneId \/ b_id = NoneId THEN NoneId
                    ELSE choose_class_folder_with_content(b_id, class_name)} :
       LET outcome == IF row = NoneId THEN "skip-row"
                      ELSE IF b_id = NoneId THEN "skip-building"
                      ELSE IF c_id = NoneId THEN "skip-folder" ELSE "ok"
       IN  /\ log' = Append(log, Event("class", class_name, building, outcome))
           /\ picked' = IF row = NoneId \/ b_id = NoneId THEN picked
                        ELSE [ parent_id |-> b_id, class_name |-> class_name, c_id |-> c_id ]
           /\ IF outcome = "ok"
              THEN /\ todo' = Tail(todo)
                   /\ cur' = [ class_name |-> class_name, c_id |-> c_id,
                               row |-> row, rid |-> NoneId ]
                   /\ remTodo' = REMOTE_MAP
                   /\ pc' = "remotes"
              ELSE /\ todo' = ContinueWith(Tail(todo))
                   /\ UNCHANGED << cur, remTodo, pc >>
    /\ UNCHANGED << envVars, class_map, idxTodo, updates, batchCalls, resolved, found,
                 keyVars, laeqVars, upVars, walkVars >>

\* one pass of  for remote_name, slm_map in REMOTE_MAP.items()  up to the index loop
RemoteFolder ==
    /\ pc = "remotes" /\ remTodo # <<>>
    /\ \E g \in {Head(remTodo)} :
       \E rid \in {descend_to_folder(cur.c_id, g.remote_name)} :
           IF rid = NoneId
           THEN /\ log' = Append(log, Event("remote", cur.class_name, g.remote_name, "skip-remote"))
                /\ remTodo' = ContinueWith(Tail(remTodo))
                /\ pc' = IF remTodo' = <<>> THEN "classes" ELSE "remotes"
                /\ UNCHANGED << cur, idxTodo >>
           ELSE /\ log' = Append(log, Event("remote", cur.class_name, g.remote_name, "ok"))
                /\ remTodo' = Tail(remTodo)
                /\ cur' = [ cur EXCEPT !.rid = rid ]
                /\ idxTodo' = g.slm_map
                /\ pc' = "indices"
    /\ UNCHANGED << envVars, class_map, todo, updates, batchCalls, resolved, found,
                 picked, keyVars, laeqVars, upVars, walkVars >>

\* one pass of  for idx, (col, label) in slm_map.items()  (new_remote)
IndexRemote ==
    /\ pc = "indices" /\ variant = "remote" /\ idxTodo # <<>>
    /\ \E e \in {Head(idxTodo)} :
       \E file_id \in {find_report_file_by_index(cur.rid, e.idx)} :
       \E value \in {IF file_id = NoneId THEN NoneStr
                     ELSE extract_laeq(download_file_text(file_id))} :
       \E outcome \in {IF file_id = NoneId THEN "skip-report"
                       ELSE IF LaeqMissing(value) THEN "skip-laeq" ELSE "ok"} :
       \E rest \in {IF outcome = "ok" THEN Tail(idxTodo) ELSE ContinueWith(Tail(idxTodo))} :
           /\ found' = [ class_name |-> cur.class_name, folder |-> cur.rid,
                         idx |-> e.idx, file_id |-> file_id ]
           /\ log' = Append(log, Event("index", cur.class_name, e.idx, outcome))
           /\ updates' = IF outcome = "ok"
                         THEN Append(updates, Update(e.col, cur.row, value)) ELSE updates
           /\ idxTodo' = rest
           /\ pc' = IF rest # <<>> THEN "indices"
                    ELSE IF remTodo = <<>> THEN "classes" ELSE "remotes"
    /\ UNCHANGED << envVars, class_map, todo, cur, remTodo, batchCalls, resolved,
                 picked, keyVars, laeqVars, upVars, walkVars >>

\* if updates: batchUpdate(data=updates)  else: nothing is sent
Flush ==
    /\ pc = "classes" /\ todo = <<>>
    /\ batchCalls' = IF ShouldWrite(updates) THEN Append(batchCalls, updates) ELSE batchCalls
    /\ pc' = "done"
    /\ UNCHANGED << envVars, class_map, todo, cur, remTodo, idxTodo, updates, resolved, found, log,
                 picked, keyVars, laeqVars, upVars, walkVars >>

----------------------------------------------------------------------------
(* The upload scripts (drive_upload_run_this.py, drive_upload_new_remote.py): *)
(* find_or_create_folder and resolve_drive_path.  drive is the list of the   *)
(* Drive's folders, a folder's id is its position; nobody but the script     *)
(* changes it during the run.                                                *)

\* how many resolve_drive_path calls a run makes
MaxJobs == 2

UploadFolder(name, parent_id, trashed) ==
    [ name |-> name, parent |-> parent_id, trashed |-> trashed ]

\* the folders a Drive may hold before the run: building, class folder, 'Local'
UploadTree ==
    << UploadFolder(<<"W", "P", "H">>, DRIVE_ROOT_FOLDER_ID, FALSE),
       UploadFolder(<<"W", "P", "H", " ", "4", "0", "0">>, 1, FALSE),
       UploadFolder(<<"L", "o", "c", "a", "l">>, 2, FALSE) >>

\* the Drives a run may start on: the first n folders of UploadTree, at most one
\* of them in the trash; no parent has two folders of one name
UploadDrives ==
    { [ i \in 1..n |-> IF i = t THEN [ UploadTree[i] EXCEPT !.trashed = TRUE ]
                       ELSE UploadTree[i] ] : n \in 0..Len(UploadTree), t \in 0..Len(UploadTree) }

\* segments = [building, class_name] + subpath  /  base_segments = [building, class_name]
UploadPaths ==
    { << <<"W", "P", "H">>, <<"W", "P", "H", " ", "4", "0", "0">>, <<"L", "o", "c", "a", "l">> >>,
      << <<"W", "P", "H">>, <<"W", "P", "H", " ", "4", "0", "0">> >>,
      << <<"W", "P", "H">>, <<"W", "P", "H", " ", "6", "0", "3">> >>,
      << <<"W", "P", "H">>, <<"W", "P", "H", " ", " ", "4", "0", "0">> >> }

RECURSIVE JobsOf(_)
JobsOf(n) ==
    IF n = 0 THEN { <<>> }
    ELSE LET shorter == JobsOf(n - 1)
         IN  shorter \cup { Append(js, p) : js \in shorter, p \in UploadPaths }

\* the folders the query  mimeType='...folder' and name='<name>' and '<parent_id>' in
\* parents and trashed=false  matches, in the server's order
QueryMatches(name, parent_id) ==
    LET Hit(i) == /\ drive[i].name = name
                  /\ drive[i].parent = parent_id
                  /\ ~drive[i].trashed
    IN  SelectSeq([ i \in DOMAIN drive |-> i ], Hit)

NoCall ==
    [ parent_id |-> NoneId, name |-> NoneStr, matches |-> <<>>, files |-> <<>>,
      nextPageToken |-> FALSE, decision |-> "none", fid |-> NoneId ]

\* find_or_create_folder(service, name, parent_id) past the cache check; files is the
\* 'files' of the one files().list(q=q, fields='files(id)') response the function
\* reads, more whether the server had a further page (a nextPageToken the function
\* neither asks for nor follows)
find_or_create_folder(name, parent_id, matches, files, more) ==
    LET Store(fid, decision, after) ==
            [ fid   |-> fid,
              drive |-> after,
              cache |-> (<< parent_id, name >> :> fid) @@ _folder_cache,
              call  |-> [ parent_id |-> parent_id, name |-> name, matches |-> matches,
                          files |-> files, nextPageToken |-> more,
                          decision |-> decision, fid |-> fid ] ]
    IN  IF files # <<>>
        THEN Store(files[1], "found", drive)
        ELSE Store(Len(drive) + 1, "created",
                   Append(drive, UploadFolder(name, parent_id, FALSE)))

UpInit ==
    /\ drive \in UploadDrives
    /\ _folder_cache = <<>>
    /\ jobs \in JobsOf(MaxJobs) \ { <<>> }
    /\ upc = "next"
    /\ up_parent = NoneId
    /\ segsLeft = <<>>
    /\ returned = <<>>
    /\ lastCall = NoCall

\* resolve_drive_path(service, segments):  parent = DRIVE_ROOT_FOLDER_ID
ResolveDrivePath ==
    /\ upc = "next" /\ jobs # <<>>
    /\ up_parent' = DRIVE_ROOT_FOLDER_ID
    /\ segsLeft' = Head(jobs)
    /\ upc' = "walk"
    /\ UNCHANGED << drive, _folder_cache, jobs, returned, lastCall,
                    keyVars, laeqVars, pipeVars, walkVars >>

\* one pass of  for seg in segments: parent = find_or_create_folder(service, seg, parent)
\* that finds the key in _folder_cache
FindCached ==
    /\ upc = "walk" /\ segsLeft # <<>>
    /\ << up_parent, Head(segsLeft) >> \in DOMAIN _folder_cache
    /\ up_parent' = _folder_cache[<< up_parent, Head(segsLeft) >>]
    /\ lastCall' = [ NoCall EXCEPT !.parent_id = up_parent, !.name = Head(segsLeft),
                                   !.decision = "cached", !.fid = up_parent' ]
    /\ segsLeft' = Tail(segsLeft)
    /\ UNCHANGED << drive, _folder_cache, jobs, upc, returned,
                    keyVars, laeqVars, pipeVars, walkVars >>

\* the same pass when the key is not cached.  The server answers files().list with a
\* page: the Drive API allows partial or empty pages before the end of the list,
\* and then the response carries a nextPageToken
FindOrCreate ==
    /\ upc = "walk" /\ segsLeft # <<>>
    /\ << up_parent, Head(segsLeft) >> \notin DOMAIN _folder_cache
    /\ \E matches \in { QueryMatches(Head(segsLeft), up_parent) } :
       \E k \in 0..Len(matches) :
       \E r \in { find_or_create_folder(Head(segsLeft), up_parent, matches,
                                        SubSeq(matches, 1, k), k < Len(matches)) } :
           /\ up_parent' = r.fid
           /\ drive' = r.drive
           /\ _folder_cache' = r.cache
           /\ lastCall' = r.call
    /\ segsLeft' = Tail(segsLeft)
    /\ UNCHANGED << jobs, upc, returned, keyVars, laeqVars, pipeVars, walkVars >>

\* return parent
ReturnParent ==
    /\ upc = "walk" /\ segsLeft = <<>>
    /\ returned' = Append(returned, [ segments |-> Head(jobs), id |-> up_parent ])
    /\ jobs' = Tail(jobs)
    /\ upc' = "next"
    /\ UNCHANGED << drive, _folder_cache, up_parent, segsLeft, lastCall,
                    keyVars, laeqVars, pipeVars, walkVars >>

UpNext == ResolveDrivePath \/ FindCached \/ FindOrCreate \/ ReturnParent

----------------------------------------------------------------------------
(* The two traversals on their own, one iteration of the while loop per     *)
(* step: _folder_has_any_report of both scripts and list_files_recursive of *)
(* Sheet_update_new_remote.py, on chains of folders with a file somewhere   *)
(* and, optionally, a folder that lies in two folders or in itself.         *)

\* the number of folders of the chain: folder 1 is the folder the traversal is
\* called on, folder k + 1 lies in folder k
MaxChain == 8

WalkStart == 1

WalkFileNames == { <<"x", "_", "0", "0", "0", "_", "1", "2", "3", "_", "R", "e", "p", "o", "r", "t", ".", "t", "x", "t">>, <<"s", "u", "m", "m", "a", "r", "y", "_", "1", "2", "3", "_", "r", "e", "p", "o", "r", "t", ".", "T", "X", "T">>, <<"n", "o", "t", "e", "s", ".", "t", "x", "t">> }

\* no file, or a file of some name in the first folder of the chain or in one of
\* its last three
WalkFiles ==
    { <<>> } \cup { <<name, at>> : name \in WalkFileNames,
                                   at \in {1} \cup ((MaxChain - 2)..MaxChain) }

\* no extra parent, or a folder that also lies in folder 1, in itself, or
\* (folder 1) in folder 3
WalkLinks ==
    { <<>>, <<1, 3>> } \cup { <<c, 1>> : c \in 1..MaxChain } \cup { <<c, c>> : c \in 1..MaxChain }

WalkNs(file, link) ==
    LET chain == [ n \in 1..MaxChain |->
                     [ Folder(<<"f">>, n - 1) EXCEPT
                         !.parents = IF link # <<>> /\ link[1] = n
                                     THEN {n - 1, link[2]} ELSE {n - 1} ] ]
    IN  IF file = <<>> THEN chain
        ELSE chain @@ ((MaxChain + 1) :> File(file[1], file[2], NoDataText))

\* no depth is beyond the bound
BeyondNever(d) == FALSE

\* every depth may be descended from
MayDescendAlways(d) == TRUE

\* if d > max_depth: continue
BeyondProbeDepth(d) == d > max_depth_probe

\* if d < max_depth: dq.append(...)
MayDescend(d) == d < max_depth_files

\* the position of the first child the probe returns True on, 0 if there is none
FirstHit(children) ==
    LET hits == {i \in DOMAIN children : ProbeHit(children[i])}
    IN  IF hits = {} THEN 0 ELSE CHOOSE i \in hits : \A j \in hits : i <= j

\* the files among the children the probe looks at: all of them, or those up to
\* the one it returns on
Looked(children, hit, level) ==
    { <<children[i], level>> :
        i \in {j \in DOMAIN children : ~IsFolder(children[j]) /\ (hit = 0 \/ j <= hit)} }

\* what the deque holds when the probe returns inside the for loop: new_remote
\* has appended the folders that precede the file, runt_this none
AtReturn(children, hit, d) ==
    IF variant = "remote" THEN Enqueue(SubSeq(children, 1, hit - 1), d) ELSE <<>>

WalkInit ==
    /\ variant \in {"local", "remote"}
    /\ order \in {"asc", "desc"}
    /\ ns \in { WalkNs(file, link) : file \in WalkFiles, link \in WalkLinks }
    /\ targets = <<>> /\ defects = {} /\ sheet = <<>> /\ pc = "idle"
    /\ class_map = <<>> /\ todo = <<>> /\ cur = <<>> /\ remTodo = <<>>
    /\ idxTodo = <<>> /\ updates = <<>> /\ batchCalls = <<>> /\ resolved = <<>>
    /\ found = <<>> /\ picked = <<>> /\ log = <<>>
    /\ wkind \in (IF variant = "remote" THEN {"probe", "files"} ELSE {"probe"})
    /\ wpc = "loop"
    /\ deque = << <<WalkStart, 0>> >>
    /\ calls = <<>>
    /\ inspected = {}
    /\ yielded = <<>>
    /\ wresult = "none"

\* _folder_has_any_report: fid, d = dq.popleft() with d > max_depth
ProbeSkip ==
    /\ wkind = "probe" /\ wpc = "loop" /\ deque # <<>>
    /\ BeyondProbeDepth(deque[1][2])
    /\ deque' = Tail(deque)
    /\ UNCHANGED << wkind, wpc, calls, inspected, yielded, wresult,
                    keyVars, laeqVars, pipeVars, upVars >>

\* _folder_has_any_report: one folder popped, listed, its files looked at, and
\* either return True or its folders appended
ProbeVisit ==
    /\ wkind = "probe" /\ wpc = "loop" /\ deque # <<>>
    /\ ~BeyondProbeDepth(deque[1][2])
    /\ \E children \in {list_children(deque[1][1])} :
       \E hit \in {FirstHit(children)} :
           /\ calls' = Append(calls, deque[1])
           /\ inspected' = inspected \cup Looked(children, hit, deque[1][2] + 1)
           /\ IF hit # 0
              THEN /\ wresult' = "True"
                   /\ wpc' = "returned"
                   /\ deque' = Tail(deque) \o AtReturn(children, hit, deque[1][2])
              ELSE /\ deque' = Tail(deque) \o Enqueue(children, deque[1][2])
                   /\ UNCHANGED << wresult, wpc >>
    /\ UNCHANGED << wkind, yielded, keyVars, laeqVars, pipeVars, upVars >>

\* _folder_has_any_report: the deque is empty, return False
ProbeExhausted ==
    /\ wkind = "probe" /\ wpc = "loop" /\ deque = <<>>
    /\ wresult' = "False"
    /\ wpc' = "returned"
    /\ UNCHANGED << wkind, deque, calls, inspected, yielded, keyVars, laeqVars, pipeVars, upVars >>

\* list_files_recursive: one folder popped and listed, its files yielded, its
\* folders appended if d < max_depth
FilesVisit ==
    /\ wkind = "files" /\ wpc = "loop" /\ deque # <<>>
    /\ \E children \in {list_children(deque[1][1])} :
           /\ calls' = Append(calls, deque[1])
           /\ yielded' = yielded \o SelectSeq(children, LAMBDA f : ~IsFolder(f))
           /\ deque' = Tail(deque) \o (IF MayDescend(deque[1][2])
                                 THEN Enqueue(children, deque[1][2]) ELSE <<>>)
    /\ UNCHANGED << wkind, wpc, inspected, wresult, keyVars, laeqVars, pipeVars, upVars >>

\* list_files_recursive: the deque is empty, the generator ends
FilesExhausted ==
    /\ wkind = "files" /\ wpc = "loop" /\ deque = <<>>
    /\ wresult' = "StopIteration"
    /\ wpc' = "returned"
    /\ UNCHANGED << wkind, deque, calls, inspected, yielded, keyVars, laeqVars, pipeVars, upVars >>

WalkNext == ProbeSkip \/ ProbeVisit \/ ProbeExhausted \/ FilesVisit \/ FilesExhausted

----------------------------------------------------------------------------
(* Specifications *)

KeyIdle == nameA = NoneStr /\ nameB = NoneStr /\ keyOut = <<>> /\ nedits = 0

LaeqIdle == text = <<>> /\ laeq = NoneStr /\ xpc = "idle"

PipeIdle ==
    /\ variant = "none" /\ targets = <<>> /\ order = "asc" /\ defects = {}
    /\ ns = <<>> /\ sheet = <<>> /\ pc = "idle" /\ class_map = <<>> /\ todo = <<>>
    /\ cur = <<>> /\ remTodo = <<>> /\ idxTodo = <<>> /\ updates = <<>>
    /\ batchCalls = <<>> /\ resolved = <<>> /\ found = <<>> /\ picked = <<>>
    /\ log = <<>>

UpIdle ==
    /\ drive = <<>> /\ _folder_cache = <<>> /\ jobs = <<>> /\ upc = "idle"
    /\ up_parent = NoneId /\ segsLeft = <<>> /\ returned = <<>> /\ lastCall = <<>>

WalkIdle ==
    /\ wkind = "none" /\ wpc = "idle" /\ deque = <<>> /\ calls = <<>>
    /\ inspected = {} /\ yielded = <<>> /\ wresult = "none"

\* _keyize applied to names and their edits
InitKey == KeyInit /\ LaeqIdle /\ PipeIdle /\ UpIdle /\ WalkIdle

SpecKey == InitKey /\ [][KeyNext]_vars

\* extract_laeq applied to report texts
InitLaeq == LaeqInit /\ KeyIdle /\ PipeIdle /\ UpIdle /\ WalkIdle

SpecLaeq == InitLaeq /\ [][LaeqNext]_vars

\* resolve_drive_path calls of one run of the upload script
InitUpload == UpInit /\ KeyIdle /\ LaeqIdle /\ PipeIdle /\ WalkIdle

SpecUpload == InitUpload /\ [][UpNext]_vars

\* one call of a traversal
InitWalk == WalkInit /\ KeyIdle /\ LaeqIdle /\ UpIdle

SpecWalk == InitWalk /\ [][WalkNext]_vars

\* the loop goes on as long as it can
SpecWalkFair == SpecWalk /\ WF_vars(WalkNext)

\* one run of a sheet-update script
Init == PipeInit /\ KeyIdle /\ LaeqIdle /\ UpIdle /\ WalkIdle

Next == MapSheetRows \/ ClassLocal \/ IndexLocal \/ ClassRemote \/ RemoteFolder \/ IndexRemote \/ Flush

Spec == Init /\ [][Next]_vars

----------------------------------------------------------------------------
(* Properties *)

\* C9: _keyize is total and canonical: names that differ only in letter case, in
\* underscore versus space, or in punctuation have the same key (in both scripts);
\* _keyize(_keyize(x)) = _keyize(x); None and the empty name give the empty key.
C9_KeyizeCanonical ==
    /\ keyOut.local[1] = keyOut.local[2]
    /\ keyOut.remote[1] = keyOut.remote[2]
    /\ keyOut.twice = << keyOut.local[2], keyOut.remote[2] >>
    /\ (nameB \in { NoneStr, <<>> } => keyOut.local[2] = <<>> /\ keyOut.remote[2] = <<>>)


\* a token has the form YYYY-MM-DD / HH:MM:SS: the pattern and nothing else
HasForm(pattern, tok) == Len(tok) = Len(pattern) /\ ReMatch(pattern, tok)

QualifiesAsClaimed(toks) ==
    /\ Len(toks) >= 5
    /\ HasForm(DatePattern, toks[1]) /\ HasForm(TimePattern, toks[2])
    /\ HasForm(DatePattern, toks[3]) /\ HasForm(TimePattern, toks[4])

\* C8: extract_laeq returns token 4 of the first line with at least 5 tokens whose
\* tokens 0 and 2 have the form YYYY-MM-DD and tokens 1 and 3 the form HH:MM:SS,
\* whatever precedes or follows that line, and None exactly when no line qualifies.
C8_FirstQualifyingLine ==
    xpc = "returned" =>
        LET lines == SplitLines(text)
            q     == {i \in DOMAIN lines : QualifiesAsClaimed(SplitWs(lines[i]))}
        IN  IF q = {} THEN laeq = NoneStr
            ELSE laeq = SplitWs(lines[CHOOSE i \in q : \A j \in q : i <= j])[5]

Last(s) == s[Len(s)]

\* the non-trashed child folders of parent_id whose name has the key of name
CandidateSet(parent_id, name) ==
    {n \in DOMAIN ns : /\ parent_id \in ns[n].parents
                       /\ ~ns[n].trashed
                       /\ ns[n].kind = "folder"
                       /\ Key(ns[n].name) = Key(name)}

\* the one of a set of ids that the server lists first
ListedFirst(S) ==
    IF order = "asc" THEN CHOOSE x \in S : \A y \in S : x <= y
    ELSE CHOOSE x \in S : \A y \in S : y <= x

\* the first of a set of candidates in listing order whose probe finds a report
\* file, the first in listing order when no probe does, None when there is none
FirstWithReportOrFirst(cands) ==
    LET Chosen(probed) ==
            IF cands = {} THEN NoneId
            ELSE IF probed # {} THEN ListedFirst(probed)
            ELSE ListedFirst(cands)
    IN  Chosen({c \in cands : _folder_has_any_report(c)})

\* C1: choose_class_folder_with_content(parent, name) returns None exactly when
\* parent has no child folder with the normalized key of name; otherwise the first
\* candidate in listing order whose probe finds a report file, and the first
\* candidate in listing order when no candidate's probe succeeds.
C1_ChooseContentful ==
    picked.parent_id # NoneId =>
        picked.c_id = FirstWithReportOrFirst(CandidateSet(picked.parent_id, picked.class_name))

\* a class folder was chosen that is not the first candidate the server listed
C1_LaterCandidateChosen ==
    /\ picked.c_id # NoneId
    /\ picked.c_id # ListedFirst(CandidateSet(picked.parent_id, picked.class_name))

\* how many index events the class and remote-folder events of a log call for
RECURSIVE IndexEventsDue(_)
IndexEventsDue(l) ==
    IF l = <<>> THEN 0
    ELSE IndexEventsDue(Tail(l)) +
         (IF Head(l).outcome # "ok" THEN 0
          ELSE IF Head(l).ev = "class" /\ variant = "local" THEN Len(INDEX_TABLE)
          ELSE IF Head(l).ev = "remote"
               THEN Len(REMOTE_MAP[CHOOSE i \in DOMAIN REMOTE_MAP :
                                     REMOTE_MAP[i].remote_name = Head(l).item].slm_map)
          ELSE 0)

EventsOf(ev) == {i \in DOMAIN log : log[i].ev = ev}

\* C2: the batch write is invoked at most once, only when main() has gone through
\* every class and every index, with all recorded updates in recording order; it is
\* not invoked when no update was recorded; nothing is written before the end.
C2_SingleBatchWriteAtEnd ==
    /\ Len(batchCalls) <= 1
    /\ batchCalls # <<>> =>
         /\ pc = "done"
         /\ todo = <<>>
         /\ Cardinality(EventsOf("class")) = Len(Worklist)
         /\ Cardinality(EventsOf("index")) = IndexEventsDue(log)
         /\ batchCalls = << updates >>
         /\ updates # <<>>

\* the run ended with one batch write that carries several updates, after a class
\* or an index was skipped
C2_BatchWritten ==
    /\ pc = "done"
    /\ batchCalls = << updates >>
    /\ Len(updates) >= 2
    /\ \E i \in DOMAIN log : log[i].outcome # "ok"

\* C3: an update is recorded for a (class, index) only if a report file was found
\* and extract_laeq returned a token from it; no update is recorded when the report
\* has no data line, and no update carries a blank, zero or placeholder value.
C3_UpdateOnlyWithMetric ==
    /\ Len(updates) = Cardinality({i \in EventsOf("index") : log[i].outcome = "ok"})
    /\ \A i \in DOMAIN updates :
         updates[i].values[1][1] \notin { NoneStr, <<>>, <<"0">>, <<" ">> }
    /\ (log # <<>> /\ Last(log).ev = "index" /\ Last(log).outcome = "ok") =>
         /\ found.class_name = Last(log).class_name
         /\ found.idx = Last(log).item
         /\ found.file_id # NoneId
         /\ extract_laeq(ns[found.file_id].text) # NoneStr
         /\ Last(updates).values = << << extract_laeq(ns[found.file_id].text) >> >>

\* a report without a data line was found and skipped, after an update was recorded
C3_ReportWithoutMetricSkipped ==
    /\ log # <<>>
    /\ Last(log).ev = "index"
    /\ Last(log).outcome = "skip-laeq"
    /\ found.file_id # NoneId
    /\ extract_laeq(ns[found.file_id].text) = NoneStr
    /\ updates # <<>>

Pair(class_name, b_id, col, row, on) ==
    [ class_name |-> class_name, b_id |-> b_id, range |-> Address(col, row),
      row |-> row, on |-> on ]

\* the (class, index) pairs of the run: the class, its building, the cell, the
\* sheet row, and the nodes that belong to the pair (the building, the class
\* folders, the folders of the index's path and the index's report files)
Pairs ==
    IF variant = "local"
    THEN { Pair(TARGET_CLASSES_LOCAL[1], 1, <<"D">>, 10, {1, 2, 3, 5, 6, 7, 9}),
           Pair(TARGET_CLASSES_LOCAL[1], 1, <<"F">>, 10, {1, 2, 3, 5, 6, 8, 10}),
           Pair(TARGET_CLASSES_LOCAL[1], 1, <<"X">>, 10, {1, 2, 3, 11, 12}),
           Pair(TARGET_CLASSES_LOCAL[2], 1, <<"D">>, 11, {1, 4}),
           Pair(TARGET_CLASSES_LOCAL[2], 1, <<"F">>, 11, {1, 4}),
           Pair(TARGET_CLASSES_LOCAL[2], 1, <<"X">>, 11, {1, 4, 13, 14}) }
    ELSE { Pair(TARGET_CLASSES_REMOTE[1], 21, <<"Z">>,  12, {21, 22, 23, 24, 26, 27, 28, 30, 32, 33}),
           Pair(TARGET_CLASSES_REMOTE[1], 21, <<"A", "A">>, 12, {21, 22, 23, 24, 27, 29}),
           Pair(TARGET_CLASSES_REMOTE[1], 21, <<"A", "B">>, 12, {21, 22, 23, 24, 27, 30, 31}),
           Pair(TARGET_CLASSES_REMOTE[1], 21, <<"A", "C">>, 12, {21, 22, 23, 25, 34}),
           Pair(TARGET_CLASSES_REMOTE[1], 21, <<"A", "D">>, 12, {21, 22, 23, 25}),
           Pair(TARGET_CLASSES_REMOTE[1], 21, <<"A", "E">>, 12, {21, 22, 23, 25, 35}),
           Pair(TARGET_CLASSES_REMOTE[2], 21, <<"Z">>,  13, {21, 36, 39}),
           Pair(TARGET_CLASSES_REMOTE[2], 21, <<"A", "A">>, 13, {21, 36, 39}),
           Pair(TARGET_CLASSES_REMOTE[2], 21, <<"A", "B">>, 13, {21, 36, 39}),
           Pair(TARGET_CLASSES_REMOTE[2], 21, <<"A", "C">>, 13, {21, 36, 37}),
           Pair(TARGET_CLASSES_REMOTE[2], 21, <<"A", "D">>, 13, {21, 36, 37, 38}),
           Pair(TARGET_CLASSES_REMOTE[2], 21, <<"A", "E">>, 13, {21, 36, 37}) }

\* what the run on the undamaged namespace and sheet records, as cell and value;
\* of the two WPH 400 folders the one the server lists first is used
ReferenceUpdates ==
    IF variant = "local"
    THEN IF order = "asc"
         THEN { << Address(<<"X">>, 10), <<"6", "0", ".", "0">> >>, << Address(<<"X">>, 11), <<"3", "8", ".", "9">> >> }
         ELSE { << Address(<<"D">>, 10), <<"5", "5", ".", "3">> >>, << Address(<<"F">>, 10), <<"4", "2", ".", "1">> >>,
                << Address(<<"X">>, 11), <<"3", "8", ".", "9">> >> }
    ELSE { << Address(<<"Z">>, 12),  <<"5", "1", ".", "0">> >>, << Address(<<"A", "A">>, 12), <<"5", "2", ".", "0">> >>,
           << Address(<<"A", "B">>, 12), <<"5", "3", ".", "0">> >>, << Address(<<"A", "C">>, 12), <<"4", "2", ".", "1">> >>,
           << Address(<<"A", "E">>, 12), <<"5", "5", ".", "3">> >>, << Address(<<"A", "D">>, 13), <<"3", "8", ".", "9">> >> }

\* the class folder that run uses for the class of a sheet row
ReferenceFolder(row) ==
    CASE row = 10 -> IF order = "asc" THEN 2 ELSE 3
      [] row = 11 -> 4
      [] row = 12 -> 22
      [] OTHER    -> 36

ReferenceAt(range) == { r[2] : r \in {x \in ReferenceUpdates : x[1] = range} }

UpdatesAt(range) ==
    { updates[i].values[1][1] : i \in {j \in DOMAIN updates : updates[j].range = range} }

\* the pairs of the classes the run goes through
PairsOfRun ==
    {p \in Pairs : targets = <<>> \/ \E i \in DOMAIN targets : targets[i] = p.class_name}

\* no miss of this run belongs to the pair
Unaffected(p) ==
    \A d \in defects :
        /\ d[1] \in {"missing", "nodata"} => d[2] \notin p.on
        /\ d[1] = "norow" => d[2] # p.row

\* the class folder of the pair is the one the undamaged namespace gives
ChoiceKept(p) ==
    FirstWithReportOrFirst(CandidateSet(p.b_id, p.class_name)) = ReferenceFolder(p.row)

SubFolders(S) ==
    {n \in DOMAIN ns : /\ ns[n].kind = "folder" /\ ~ns[n].trashed
                       /\ ns[n].parents \cap S # {}}

\* the files for idx within depth 2 below folder: files of folder, of its
\* subfolders and of their subfolders whose name ends, ignoring case, with
\* _<idx>_123_Report.txt
MatchesWithinDepth2(folder, idx) ==
    LET Tail19(name) == SubSeq(name, Len(name) - 18, Len(name))
        Named(n) == /\ Len(ns[n].name) >= 19
                    /\ StrLower(Tail19(ns[n].name)) = StrLower(<<"_">> \o idx \o ReportSuffix)
        In(S) == {n \in DOMAIN ns : /\ ns[n].kind = "file" /\ ~ns[n].trashed
                                    /\ ns[n].parents \cap S # {}
                                    /\ Named(n)}
        Levels(d1) == {folder} \cup d1 \cup SubFolders(d1)
    IN  In(Levels(SubFolders({folder})))

\* C7: find_report_file_by_index(folder, idx) returns, of the files within depth 2
\* below folder whose name ends with _<idx>_123_Report.txt, the one with the
\* lexicographically greatest name, and None exactly when there is no such file.
C7_GreatestMatchWithinDepth ==
    (variant = "remote" /\ found.folder # NoneId) =>
        LET Greatest(matches) ==
                IF matches = {} THEN found.file_id = NoneId
                ELSE /\ found.file_id \in matches
                     /\ \A g \in matches : StrLE(ns[g].name, ns[found.file_id].name)
        IN  Greatest(MatchesWithinDepth2(found.folder, found.idx))

\* a file was returned for an index that several files within depth 2 match
C7_SeveralMatches ==
    /\ variant = "remote"
    /\ found.file_id # NoneId
    /\ Cardinality(MatchesWithinDepth2(found.folder, found.idx)) >= 2

\* the segment is "Front_1" and the matching child folders are all named "Front 1"
FrontCase(r) ==
    /\ r.seg = <<"F", "r", "o", "n", "t", "_", "1">>
    /\ CandidateSet(r.parent, r.seg) # {}
    /\ \A n \in CandidateSet(r.parent, r.seg) : ns[n].name = <<"F", "r", "o", "n", "t", " ", "1">>

\* C10 (as the code behaves): a segment is looked up as given and, on failure, in
\* its alternate spelling; descend_to_folder compares normalized keys, which are
\* the same for both spellings, so a folder is found exactly when a child folder
\* has the segment's key, and then by the first attempt: "Front_1" finds the
\* folder "Front 1" without the alternate spelling being tried.
C10_FirstAttemptFindsByKey ==
    \A i \in DOMAIN resolved :
        /\ resolved[i].attempts \in {1, 2}
        /\ resolved[i].attempts = 1 <=> resolved[i].next_id # NoneId
        /\ resolved[i].next_id # NoneId <=> CandidateSet(resolved[i].parent, resolved[i].seg) # {}
        /\ FrontCase(resolved[i]) =>
             /\ resolved[i].attempts = 1
             /\ resolved[i].next_id \in CandidateSet(resolved[i].parent, resolved[i].seg)

\* C10 (as stated): for "Front_1" under a parent whose only matching child folder
\* is "Front 1" the first attempt fails and the alternate spelling finds the folder.
C10_AlternateSpellingFinds ==
    \A i \in DOMAIN resolved :
        FrontCase(resolved[i]) =>
            /\ resolved[i].attempts = 2
            /\ resolved[i].next_id \in CandidateSet(resolved[i].parent, resolved[i].seg)

\* the segment "Front_1" was resolved to the folder "Front 1"
C10_FrontResolved ==
    \E i \in DOMAIN resolved :
        /\ FrontCase(resolved[i])
        /\ resolved[i].next_id # NoneId
        /\ ns[resolved[i].next_id].name = <<"F", "r", "o", "n", "t", " ", "1">>

\* C5: a folder is created for (parent, name) only when parent has no non-trashed
\* child folder of that name; every resolve_drive_path call for the same path
\* returns the same id; no parent ends up with two child folders of one name.
C5_ResolveIsIdempotent ==
    /\ lastCall.decision = "created" => lastCall.matches = <<>>
    /\ \A i, j \in DOMAIN returned :
         returned[i].segments = returned[j].segments => returned[i].id = returned[j].id
    /\ \A a, b \in DOMAIN drive :
         (/\ a # b
          /\ ~drive[a].trashed /\ ~drive[b].trashed
          /\ drive[a].parent = drive[b].parent) => drive[a].name # drive[b].name

\* C6: no 'not found' decision is taken while a page with a continuation cursor
\* remains unread: find_or_create_folder creates a folder only when the listing it
\* read was complete.
C6_DecisionsOnCompleteListing ==
    lastCall.decision = "created" => ~lastCall.nextPageToken

\* C11: when the configured tab does not exist or the row-lookup read fails, the
\* run ends in sys.exit(1) straight from map_sheet_rows: no class is looked at,
\* no update is recorded and the batch write is never invoked.
C11_FatalSheetErrorWritesNothing ==
    (sheet.fault # "none" \/ SHEET_NAME \notin sheet.titles) =>
        /\ pc \in {"start", "exit"}
        /\ log = <<>>
        /\ updates = <<>>
        /\ batchCalls = <<>>

\* new_remote, which has no tab check, has exited on a spreadsheet without the tab
C11_ExitedWithoutTab ==
    /\ pc = "exit"
    /\ variant = "remote"
    /\ SHEET_NAME \notin sheet.titles
    /\ sheet.fault = "none"

\* the index events of the log that recorded an update, in order
IsRecorded(e) == e.ev = "index" /\ e.outcome = "ok"

Recorded == SelectSeq(log, IsRecorded)

\* the column the index table of the running script gives an index
ColumnOf(idx) ==
    IF variant = "local"
    THEN INDEX_TABLE[CHOOSE i \in DOMAIN INDEX_TABLE : INDEX_TABLE[i].idx = idx].col
    ELSE LET at == CHOOSE rs \in {<<r, s>> : r \in DOMAIN REMOTE_MAP, s \in 1..3} :
                     /\ rs[2] \in DOMAIN REMOTE_MAP[rs[1]].slm_map
                     /\ REMOTE_MAP[rs[1]].slm_map[rs[2]].idx = idx
         IN  REMOTE_MAP[at[1]].slm_map[at[2]].col

\* the folders reached from the folders of S along a path, a segment matching
\* a child folder that has the segment's key
RECURSIVE ReachedAlong(_, _)
ReachedAlong(S, path) ==
    IF path = <<>> THEN S
    ELSE ReachedAlong({n \in SubFolders(S) : Key(ns[n].name) = Key(Head(path))}, Tail(path))

\* the folder below a class folder where the reports of an index are looked for:
\* the end of the index's path (runt_this), the folder of the index's remote
\* device (new_remote)
ReportFolders(c_id, idx) ==
    IF variant = "local"
    THEN ReachedAlong({c_id}, INDEX_TABLE[CHOOSE i \in DOMAIN INDEX_TABLE :
                                             INDEX_TABLE[i].idx = idx].path)
    ELSE ReachedAlong({c_id}, << REMOTE_MAP[CHOOSE r \in DOMAIN REMOTE_MAP :
                                   \E s \in DOMAIN REMOTE_MAP[r].slm_map :
                                       REMOTE_MAP[r].slm_map[s].idx = idx].remote_name >>)

\* C12: every recorded update for class c and index i has the address
\* '<tab>!<column of i><row of c>', the row being the one the row table maps the
\* key of c to; its value is the token extracted from the report found at i's path
\* under the class folder chosen for c; and the run of Sheet_Update_runt_this.py
\* over the one class WPH 400 (row 10) in which only index 003 (column F, report
\* value 42.1) can be resolved records exactly the update {Main Sheet!F10, 42.1}
\* and invokes the batch write once, with it.
C12_UpdateAddressAndValue ==
    /\ Len(updates) = Len(Recorded)
    /\ \A k \in DOMAIN updates :
         /\ Key(Recorded[k].class_name) \in DOMAIN class_map
         /\ updates[k].range = SHEET_NAME \o <<"!">> \o ColumnOf(Recorded[k].item)
                                 \o Decimal(class_map[Key(Recorded[k].class_name)])
    /\ (log # <<>> /\ IsRecorded(Last(log))) =>
         /\ picked.class_name = Last(log).class_name
         /\ found.idx = Last(log).item
         /\ found.folder \in ReportFolders(picked.c_id, found.idx)
         /\ found.file_id # NoneId
         /\ Last(updates).values = << << extract_laeq(ns[found.file_id].text) >> >>
    /\ ( /\ pc = "done"
         /\ variant = "local"
         /\ targets = << <<"W", "P", "H", " ", "4", "0", "0">> >>
         /\ order = "desc"
         /\ defects # {}
         /\ defects \subseteq {<<"missing", 7>>, <<"missing", 9>>, <<"nodata", 9>>} ) =>
         /\ updates = << [ range |-> <<"M", "a", "i", "n", " ", "S", "h", "e", "e", "t", "!", "F", "1", "0">>, values |-> << << <<"4", "2", ".", "1">> >> >> ] >>
         /\ batchCalls = << updates >>

\* the run over the one class at row 10 has ended with the one update of index 003
C12_OneClassOneIndex ==
    /\ pc = "done"
    /\ targets = << <<"W", "P", "H", " ", "4", "0", "0">> >>
    /\ Len(log) = 4
    /\ updates = << [ range |-> <<"M", "a", "i", "n", " ", "S", "h", "e", "e", "t", "!", "F", "1", "0">>, values |-> << << <<"4", "2", ".", "1">> >> >> ] >>
    /\ batchCalls = << updates >>

\* the folders d steps below the folder the traversal is called on
RECURSIVE Layer(_)
Layer(d) == IF d = 0 THEN {WalkStart} ELSE SubFolders(Layer(d - 1))

\* the files directly inside the folders of S
FilesIn(S) ==
    {n \in DOMAIN ns : /\ ns[n].kind = "file" /\ ~ns[n].trashed
                       /\ ns[n].parents \cap S # {}}

\* a file the probe takes for a report lies at most so many levels below the
\* folder, a file directly inside the folder being at level 1
ReportWithin(levels) ==
    \E d \in 0..(levels - 1) : \E f \in FilesIn(Layer(d)) : ProbeHit(f)

\* only the folder listed last holds a file the probe takes for a report
StopsAtFirstHit ==
    \A k \in DOMAIN calls :
        k < Len(calls) => \A f \in FilesIn({calls[k][1]}) : ~ProbeHit(f)

\* C13: the probe is breadth-first and bounded: it lists the candidate (depth 0)
\* and folders down to depth max_depth = 6 and looks at the files inside them,
\* that is at files down to level 7, a file directly inside the candidate being
\* at level 1; it returns True iff a file matching the grammar lies within those
\* levels, lists and looks at nothing deeper, and lists nothing after the
\* folder with the first matching file.
C13_ProbeBreadthFirstBounded ==
    wkind = "probe" =>
        /\ \A k \in DOMAIN calls :
             /\ calls[k][2] <= max_depth_probe
             /\ calls[k][1] \in Layer(calls[k][2])
             /\ k > 1 => calls[k - 1][2] <= calls[k][2]
        /\ \A x \in inspected :
             /\ x[2] <= max_depth_probe + 1
             /\ x[1] \in FilesIn(Layer(x[2] - 1))
        /\ StopsAtFirstHit
        /\ wpc = "returned" =>
             /\ (wresult = "True") = ReportWithin(max_depth_probe + 1)
             /\ (wresult = "True") = _folder_has_any_report(WalkStart)

\* C13 with the bound as 6 levels of files: True iff a matching file lies at
\* level 6 or above, and no file below level 6 is looked at
C13_SixLevelsOfFiles ==
    wkind = "probe" =>
        /\ \A k \in DOMAIN calls : calls[k][2] <= 6
        /\ \A x \in inspected : x[2] <= 6
        /\ StopsAtFirstHit
        /\ wpc = "returned" => ((wresult = "True") = ReportWithin(6))

\* the probe has returned True on a file at level 7
C13_FoundAtLevelSeven ==
    /\ wkind = "probe"
    /\ wpc = "returned"
    /\ wresult = "True"
    /\ ~ReportWithin(6)
    /\ \E x \in inspected : x[2] = 7

\* the folders of S and all folders below them
RECURSIVE FoldersBelow(_, _)
FoldersBelow(S, n) == IF n = 0 THEN S ELSE FoldersBelow(S \cup SubFolders(S), n - 1)

\* the files below a folder, at any depth, whose name matches the report grammar
ReportsBelow(folder) ==
    {f \in FilesIn(FoldersBelow({folder}, Cardinality(DOMAIN ns))) :
        _is_report_file(ns[f].name)}

\* C14: find_report_file(folder) returns a file below folder whose name matches
\* the report grammar, whatever index the name carries, and returns None only
\* when no file below folder, at any depth, matches the grammar.
C14_FirstDescendantReport ==
    (variant = "local" /\ found.folder # NoneId) =>
        /\ found.file_id # NoneId => found.file_id \in ReportsBelow(found.folder)
        /\ found.file_id = NoneId => ReportsBelow(found.folder) = {}

\* C15: the cache of find_or_create_folder is keyed by (parent id, normalized
\* name): two entries under one parent whose names have the same normalized key
\* hold the same folder id.
C15_CacheKeyedByNormalizedName ==
    \A k1, k2 \in DOMAIN _folder_cache :
        (k1[1] = k2[1] /\ keyize_remote(k1[2]) = keyize_remote(k2[2])) =>
            _folder_cache[k1] = _folder_cache[k2]

\* the number of paths of d steps from the folder the traversal is called on
\* down to folder f
RECURSIVE PathsTo(_, _)
RECURSIVE PathsVia(_, _)
PathsTo(f, d) ==
    IF d = 0 THEN (IF f = WalkStart THEN 1 ELSE 0)
    ELSE PathsVia({p \in ns[f].parents : p \in DOMAIN ns /\ ns[p].kind = "folder"
                                          /\ ~ns[p].trashed}, d - 1)

PathsVia(S, d) ==
    IF S = {} THEN 0
    ELSE LET p == CHOOSE x \in S : TRUE
         IN  PathsTo(p, d) + PathsVia(S \ {p}, d)

\* how often list_children was called on a folder at a depth
TimesListed(f, d) == Cardinality({k \in DOMAIN calls : calls[k] = <<f, d>>})

\* the depth down to which the running traversal lists folders
ListingBound == IF wkind = "probe" THEN max_depth_probe ELSE max_depth_files

\* no folder is listed below the bound of the traversal, list_files_recursive has
\* no folder below depth 2 in its deque, and a folder is listed at a depth at
\* most once per path of that length that leads to it
ListingsBounded ==
    /\ \A k \in DOMAIN calls :
         /\ calls[k][2] <= ListingBound
         /\ TimesListed(calls[k][1], calls[k][2]) <= PathsTo(calls[k][1], calls[k][2])
    /\ wkind = "files" => \A i \in DOMAIN deque : deque[i][2] <= max_depth_files
    /\ (wpc = "returned" /\ wkind = "files") =>
         yielded = list_files_recursive(WalkStart)

\* C16: both traversals terminate on every namespace with finite listings, also
\* when a folder lies in itself or is reached by several paths: the probe lists no
\* folder below its depth bound, the recursive report search enqueues no folder
\* below depth 2, a folder reached by k paths within the bound is listed at most
\* k times, and after finitely many listing calls the traversal returns.
C16_TraversalsTerminate == []ListingsBounded /\ <>(wpc = "returned")

\* a traversal has returned from a namespace in which a folder lies in itself,
\* after listing that folder more than once
C16_ReturnedFromCycle ==
    /\ wpc = "returned"
    /\ \E f \in DOMAIN ns : f \in ns[f].parents
    /\ \E j, k \in DOMAIN calls : j < k /\ calls[j][1] = calls[k][1]

====
